---- MODULE Spec2Model ----
(***************************************************************************)
(* Model of tailr (src/tailr/src/main.rs): the count-spec parser           *)
(* parse_num, the offset engine get_start_index, the two-pass per-file     *)
(* pipeline count_line_bytes -> print_lines / print_bytes, and the         *)
(* multi-file driver run.                                                  *)
(*                                                                         *)
(* Four specifications share the module:                                   *)
(*   SpecParse  applies parse_num to a bounded set of argument strings;    *)
(*   SpecStart  applies get_start_index to bounded directives and totals;  *)
(*   SpecFile   runs the count pass and the streaming pass on one file;    *)
(*   Spec       is the driver run over a list of file arguments.           *)
(***************************************************************************)
EXTENDS Integers, Sequences, FiniteSets, TLC

VARIABLES p_val, p_res, p_pc
VARIABLES s_take, s_total, s_res, s_pc
VARIABLES f_content, f_take, f_bytemode, f_totals, f_out, f_pc
VARIABLES args, lines, bytes, file_num, stdout, stderr, outcome, exit_code, pc

parseVars == <<p_val, p_res, p_pc>>
startVars == <<s_take, s_total, s_res, s_pc>>
fileVars == <<f_content, f_take, f_bytemode, f_totals, f_out, f_pc>>
runVars == <<args, lines, bytes, file_num, stdout, stderr, outcome, exit_code, pc>>
vars == <<parseVars, startVars, fileVars, runVars>>

(***************************************************************************)
(* Bounds of the model.                                                    *)
(***************************************************************************)
MaxLen == 3
MaxZeros == 1
MaxNum == 6
MaxTotal == 5
MaxBytes == 4
MaxFiles == 2

(***************************************************************************)
(* Values of the program.                                                  *)
(***************************************************************************)
\* Option<T>
None == <<>>
Some(x) == <<x>>

\* Result<T>
Ok(x) == <<"Ok", x>>
Err(e) == <<"Err", e>>
IsOk(r) == r[1] = "Ok"

\* enum TakeValue
PlusZero == <<"PlusZero">>
TakeNum(n) == <<"TakeNum", n>>

(***************************************************************************)
(* i64.  TLC integers are 32 bits wide, so a 64-bit value is kept as a     *)
(* sign and a magnitude in base-10 limbs, most significant first, without  *)
(* leading zeros (zero is the empty magnitude and is never negative).      *)
(***************************************************************************)
I64(n, m) == [neg |-> n, mag |-> m]
I64Zero == I64(FALSE, <<>>)
\* i64::MAX = 2^63 - 1 = 9223372036854775807
I64MaxMag == <<9,2,2,3,3,7,2,0,3,6,8,5,4,7,7,5,8,0,7>>
\* |i64::MIN| = 2^63 = 9223372036854775808
I64MinMag == <<9,2,2,3,3,7,2,0,3,6,8,5,4,7,7,5,8,0,8>>

\* a <= b for magnitudes
MagLeq(a, b) ==
    \/ Len(a) < Len(b)
    \/ /\ Len(a) = Len(b)
       /\ \/ a = b
          \/ \E i \in 1..Len(a) :
                /\ a[i] < b[i]
                /\ \A j \in 1..(i - 1) : a[j] = b[j]

\* i64::checked_mul(10) followed by checked_add(d) (positive accumulation)
\* or checked_sub(d) (negative accumulation): None on overflow.
CheckedMul10(x) ==
    LET m == IF x.mag = <<>> THEN <<>> ELSE Append(x.mag, 0)
    IN  IF MagLeq(m, IF x.neg THEN I64MinMag ELSE I64MaxMag)
        THEN Some(I64(x.neg, m)) ELSE None

\* x + d for an accumulator x >= 0 and a digit d
CheckedAdd(x, d) ==
    LET m == IF x.mag = <<>>
             THEN (IF d = 0 THEN <<>> ELSE <<d>>)
             ELSE [x.mag EXCEPT ![Len(x.mag)] = @ + d]
    IN  IF MagLeq(m, I64MaxMag) THEN Some(I64(FALSE, m)) ELSE None

\* x - d for an accumulator x <= 0 and a digit d
CheckedSub(x, d) ==
    LET m == IF x.mag = <<>>
             THEN (IF d = 0 THEN <<>> ELSE <<d>>)
             ELSE [x.mag EXCEPT ![Len(x.mag)] = @ + d]
    IN  IF MagLeq(m, I64MinMag) THEN Some(I64(m # <<>>, m)) ELSE None

(***************************************************************************)
(* Characters.  A string is a sequence of one-character strings; "U+0663"  *)
(* stands for the single character ARABIC-INDIC DIGIT THREE, which the     *)
(* regex class \d matches and which is not an ASCII digit.                 *)
(***************************************************************************)
AsciiDigits == <<"0", "1", "2", "3", "4", "5", "6", "7", "8", "9">>
IsAsciiDigit(c) == \E i \in 1..10 : AsciiDigits[i] = c
\* char::to_digit(10) on an ASCII digit
ToDigit(c) == (CHOOSE i \in 1..10 : AsciiDigits[i] = c) - 1
\* the regex class \d (Unicode decimal digits)
IsRegexDigit(c) == IsAsciiDigit(c) \/ c = "U+0663"

\* <i64 as FromStr>::from_str: optional sign, then digits accumulated with
\* overflow-checked arithmetic, away from zero on the side of the sign.
RECURSIVE ParseDigits(_, _, _)
ParseDigits(s, acc, negative) ==
    IF s = <<>> THEN Ok(acc)
    ELSE IF ~IsAsciiDigit(Head(s)) THEN Err("InvalidDigit")
    ELSE LET mul == CheckedMul10(acc)
         IN  IF mul = None
             THEN Err(IF negative THEN "NegOverflow" ELSE "PosOverflow")
             ELSE LET nxt == IF negative THEN CheckedSub(mul[1], ToDigit(Head(s)))
                                         ELSE CheckedAdd(mul[1], ToDigit(Head(s)))
                  IN  IF nxt = None
                      THEN Err(IF negative THEN "NegOverflow" ELSE "PosOverflow")
                      ELSE ParseDigits(Tail(s), nxt[1], negative)

ParseI64(s) ==
    IF s = <<>> THEN Err("Empty")
    ELSE IF s = <<"+">> \/ s = <<"-">> THEN Err("InvalidDigit")
    ELSE IF Head(s) = "+" THEN ParseDigits(Tail(s), I64Zero, FALSE)
    ELSE IF Head(s) = "-" THEN ParseDigits(Tail(s), I64Zero, TRUE)
    ELSE ParseDigits(s, I64Zero, FALSE)

(***************************************************************************)
(* parse_num                                                               *)
(***************************************************************************)
\* NUM_RE = ^([+-])?(\d+)$ : the captures <<group 1 or None, group 2>>, or
\* None when the string does not match.
NumReCaptures(val) ==
    LET signed == val # <<>> /\ Head(val) \in {"+", "-"}
        digits == IF signed THEN Tail(val) ELSE val
    IN  IF digits # <<>> /\ \A i \in 1..Len(digits) : IsRegexDigit(digits[i])
        THEN Some(<<IF signed THEN Some(Head(val)) ELSE None, digits>>)
        ELSE None

parse_num_default_plus(val) ==
    LET caps == NumReCaptures(val)
    IN  IF caps = None THEN Err(val)
        ELSE LET sign == IF caps[1][1] = None THEN "+" ELSE caps[1][1][1]
                 signed_num == <<sign>> \o caps[1][2]
                 num == ParseI64(signed_num)
             IN  IF IsOk(num)
                 THEN (IF sign = "+" /\ num[2] = I64Zero
                       THEN Ok(PlusZero) ELSE Ok(TakeNum(num[2])))
                 ELSE Err(val)

parse_num_wrapping(val) ==
    LET caps == NumReCaptures(val)
    IN  IF caps = None THEN Err(val)
        ELSE LET sign == IF caps[1][1] = None THEN "-" ELSE caps[1][1][1]
                 signed_num == <<sign>> \o caps[1][2]
                 num == ParseI64(signed_num)
             IN  IF IsOk(num)
                 THEN (IF sign = "+" /\ num[2] = I64Zero
                       THEN Ok(PlusZero) ELSE Ok(TakeNum(num[2])))
                 ELSE IF num[2] \in {"PosOverflow", "NegOverflow"}
                      THEN Ok(TakeNum(IF sign = "+" THEN I64(FALSE, I64MaxMag)
                                                    ELSE I64(TRUE, I64MinMag)))
                      ELSE Err(val)

parse_num(val) ==
    LET caps == NumReCaptures(val)
    IN  IF caps = None THEN Err(val)
        ELSE LET sign == IF caps[1][1] = None THEN "-" ELSE caps[1][1][1]
                 signed_num == <<sign>> \o caps[1][2]
                 num == ParseI64(signed_num)
             IN  IF IsOk(num)
                 THEN (IF sign = "+" /\ num[2] = I64Zero
                       THEN Ok(PlusZero) ELSE Ok(TakeNum(num[2])))
                 ELSE Err(val)

(***************************************************************************)
(* Argument strings for SpecParse: every string of at most MaxLen          *)
(* characters over ParseAlphabet, and the strings around the i64 limits    *)
(* (optional sign, up to MaxZeros leading zeros, 18 to 20 digits).         *)
(***************************************************************************)
ParseAlphabet == {"+", "-", "0", "1", "9", "a", "U+0663", "\n"}

RECURSIVE StringsUpTo(_, _)
StringsUpTo(alphabet, n) ==
    IF n = 0 THEN {<<>>}
    ELSE LET shorter == StringsUpTo(alphabet, n - 1)
         IN  shorter \cup {Append(s, c) : s \in shorter, c \in alphabet}

FromDigits(ds) == [i \in 1..Len(ds) |-> AsciiDigits[ds[i] + 1]]
Zeros(n) == [i \in 1..n |-> "0"]

LimitPrefix == SubSeq(I64MaxMag, 1, 18)
BoundaryMags ==
    {Append(LimitPrefix, d) : d \in 0..9}
    \cup {LimitPrefix,
          [i \in 1..19 |-> 9],
          [i \in 1..19 |-> IF i = 1 THEN 1 ELSE 0],
          [i \in 1..20 |-> IF i = 1 THEN 1 ELSE 0],
          [I64MaxMag EXCEPT ![1] = 8],
          [I64MaxMag EXCEPT ![2] = 3],
          Append(I64MaxMag, 0)}
BoundaryStrings ==
    {sg \o Zeros(z) \o FromDigits(m) :
        sg \in {<<>>, <<"+">>, <<"-">>}, z \in 0..MaxZeros, m \in BoundaryMags}

ParseInputs == StringsUpTo(ParseAlphabet, MaxLen) \cup BoundaryStrings

(***************************************************************************)
(* get_start_index.  Totals and the counts it is applied to stay far below *)
(* 2^63 and no step of it can overflow (total + num has operands of        *)
(* opposite sign, num - 1 has num > 0), so native integers are used.       *)
(***************************************************************************)
get_start_index_no_clamp(take_val, total) ==
    IF take_val = PlusZero
    THEN (IF total > 0 THEN Some(0) ELSE None)
    ELSE LET num == take_val[2]
         IN  IF num = 0 \/ total = 0 \/ num > total
             THEN None
             ELSE Some(IF num < 0 THEN total + num ELSE num - 1)

get_start_index_geq(take_val, total) ==
    IF take_val = PlusZero
    THEN (IF total > 0 THEN Some(0) ELSE None)
    ELSE LET num == take_val[2]
         IN  IF num = 0 \/ total = 0 \/ num >= total
             THEN None
             ELSE LET start == IF num < 0 THEN total + num ELSE num - 1
                  IN  Some(IF start < 0 THEN 0 ELSE start)

get_start_index_plus_zero_always(take_val, total) ==
    IF take_val = PlusZero
    THEN Some(0)
    ELSE LET num == take_val[2]
         IN  IF num = 0 \/ total = 0 \/ num > total
             THEN None
             ELSE LET start == IF num < 0 THEN total + num ELSE num - 1
                  IN  Some(IF start < 0 THEN 0 ELSE start)

get_start_index_no_upper(take_val, total) ==
    IF take_val = PlusZero
    THEN (IF total > 0 THEN Some(0) ELSE None)
    ELSE LET num == take_val[2]
         IN  IF num = 0 \/ total = 0
             THEN None
             ELSE LET start == IF num < 0 THEN total + num ELSE num - 1
                  IN  Some(IF start < 0 THEN 0 ELSE start)

get_start_index(take_val, total) ==
    IF take_val = PlusZero
    THEN (IF total > 0 THEN Some(0) ELSE None)
    ELSE LET num == take_val[2]
         IN  IF num = 0 \/ total = 0 \/ num > total
             THEN None
             ELSE LET start == IF num < 0 THEN total + num ELSE num - 1
                  IN  Some(IF start < 0 THEN 0 ELSE start)

\* The directives get_start_index is applied to.
Directives == {PlusZero} \cup {TakeNum(n) : n \in (-MaxNum)..MaxNum}

(***************************************************************************)
(* Files and readers.  A file is a sequence of bytes.  A reader is the     *)
(* file's bytes and the schedule of the environment's I/O failure:         *)
(* fail_at = Some(n) makes the read call number n (from 0) return an       *)
(* error, None lets every read succeed.                                    *)
(***************************************************************************)
Reader(data, fail_at) == [data |-> data, fail_at |-> fail_at]

NL == 10

\* BufRead::read_until(b'\n', buf) at position pos (from 1) with buf empty:
\* the bytes up to and including the next terminator, or up to end-of-file.
ReadUntil(data, pos) ==
    LET nls == {i \in pos..Len(data) : data[i] = NL}
        last == IF nls = {} THEN Len(data)
                ELSE CHOOSE i \in nls : \A j \in nls : i <= j
    IN  SubSeq(data, pos, last)

\* the loop of count_line_bytes
RECURSIVE CountLoop(_, _, _, _, _)
CountLoop(file, pos, reads, num_lines, num_bytes) ==
    IF file.fail_at = Some(reads) THEN Err("io")
    ELSE LET buf == ReadUntil(file.data, pos)
             bytes_read == Len(buf)
         IN  IF bytes_read = 0
             THEN Ok(<<num_lines, num_bytes>>)
             ELSE CountLoop(file, pos + bytes_read, reads + 1,
                            num_lines + 1, num_bytes + bytes_read)

count_line_bytes(file) == CountLoop(file, 1, 0, 0, 0)

(***************************************************************************)
(* String::from_utf8_lossy: well-formed UTF-8 sequences are kept, every    *)
(* maximal ill-formed subsequence becomes U+FFFD (EF BF BD).               *)
(***************************************************************************)
REPLACEMENT == <<239, 191, 189>>

Utf8CharWidth(b) ==
    IF b < 128 THEN 1
    ELSE IF b \in 194..223 THEN 2
    ELSE IF b \in 224..239 THEN 3
    ELSE IF b \in 240..244 THEN 4
    ELSE 0

\* the range of the second byte of a sequence led by b
SecondRange(b) ==
    IF b = 224 THEN 160..191
    ELSE IF b = 237 THEN 128..159
    ELSE IF b = 240 THEN 144..191
    ELSE IF b = 244 THEN 128..143
    ELSE 128..191

RECURSIVE LossyFrom(_, _)
LossyFrom(v, i) ==
    IF i > Len(v) THEN <<>>
    ELSE LET w == Utf8CharWidth(v[i])
             has(k, range) == i + k <= Len(v) /\ v[i + k] \in range
         IN  IF w = 1 THEN <<v[i]>> \o LossyFrom(v, i + 1)
             ELSE IF w = 0 \/ ~has(1, SecondRange(v[i]))
                  THEN REPLACEMENT \o LossyFrom(v, i + 1)
             ELSE IF w = 2 THEN SubSeq(v, i, i + 1) \o LossyFrom(v, i + 2)
             ELSE IF ~has(2, 128..191) THEN REPLACEMENT \o LossyFrom(v, i + 2)
             ELSE IF w = 3 THEN SubSeq(v, i, i + 2) \o LossyFrom(v, i + 3)
             ELSE IF ~has(3, 128..191) THEN REPLACEMENT \o LossyFrom(v, i + 3)
             ELSE SubSeq(v, i, i + 3) \o LossyFrom(v, i + 4)

from_utf8_lossy(v) == LossyFrom(v, 1)

(***************************************************************************)
(* print_bytes, print_lines: <<result, bytes written to standard output>>. *)
(***************************************************************************)
\* seek(SeekFrom::Start(start)) then read_to_end: the bytes from offset
\* start to end-of-file; read_to_end reads until end-of-file, so a scheduled
\* failure hits one of its reads and nothing has been printed by then.
print_bytes(file, num_bytes, total_bytes) ==
    LET start == get_start_index(num_bytes, total_bytes)
    IN  IF start = None THEN <<Ok("unit"), <<>>>>
        ELSE IF file.fail_at # None THEN <<Err("io"), <<>>>>
        ELSE LET buffer == SubSeq(file.data, start[1] + 1, Len(file.data))
             IN  <<Ok("unit"),
                   IF buffer # <<>> THEN from_utf8_lossy(buffer) ELSE <<>>>>

\* the loop of print_lines
RECURSIVE PrintLoop(_, _, _, _, _)
PrintLoop(file, pos, line_num, start, out) ==
    IF file.fail_at = Some(line_num) THEN <<Err("io"), out>>
    ELSE LET buf == ReadUntil(file.data, pos)
             bytes_read == Len(buf)
         IN  IF bytes_read = 0
             THEN <<Ok("unit"), out>>
             ELSE PrintLoop(file, pos + bytes_read, line_num + 1, start,
                            IF line_num >= start
                            THEN out \o from_utf8_lossy(buf) ELSE out)

print_lines(file, num_lines, total_lines) ==
    LET start == get_start_index(num_lines, total_lines)
    IN  IF start = None THEN <<Ok("unit"), <<>>>>
        ELSE PrintLoop(file, 1, 0, start[1], <<>>)

(***************************************************************************)
(* SpecParse: parse_num applied to one argument string.                    *)
(***************************************************************************)
ParseIdle == p_val = <<>> /\ p_res = None /\ p_pc = "idle"
StartIdle == s_take = PlusZero /\ s_total = 0 /\ s_res = None /\ s_pc = "idle"
FileIdle ==
    /\ f_content = <<>> /\ f_take = PlusZero /\ f_bytemode = FALSE
    /\ f_totals = None /\ f_out = <<>> /\ f_pc = "idle"
RunIdle ==
    /\ args = None /\ lines = None /\ bytes = None /\ file_num = 0
    /\ stdout = <<>> /\ stderr = <<>> /\ outcome = <<>>
    /\ exit_code = None /\ pc = "idle"

InitParse ==
    /\ p_val \in ParseInputs
    /\ p_res = None
    /\ p_pc = "call"
    /\ StartIdle /\ FileIdle /\ RunIdle

ParseNum ==
    /\ p_pc = "call"
    /\ p_res' = Some(parse_num(p_val))
    /\ p_pc' = "done"
    /\ UNCHANGED <<p_val, startVars, fileVars, runVars>>

NextParse == ParseNum
SpecParse == InitParse /\ [][NextParse]_vars

(***************************************************************************)
(* SpecStart: get_start_index applied to one directive and one total.      *)
(***************************************************************************)
InitStart ==
    /\ s_take \in Directives
    /\ s_total \in 0..MaxTotal
    /\ s_res = None
    /\ s_pc = "call"
    /\ ParseIdle /\ FileIdle /\ RunIdle

GetStartIndex ==
    /\ s_pc = "call"
    /\ s_res' = get_start_index(s_take, s_total)
    /\ s_pc' = "done"
    /\ UNCHANGED <<s_take, s_total, parseVars, fileVars, runVars>>

NextStart == GetStartIndex
SpecStart == InitStart /\ [][NextStart]_vars

(***************************************************************************)
(* SpecFile: the body of run's loop for one file that opens and reads      *)
(* without error: the counting pass, then the streaming pass in line mode  *)
(* (print_lines) or byte mode (print_bytes).                               *)
(*                                                                         *)
(* ByteAlphabet: 'a', the terminator, and C3 A9 (the two bytes of U+00E9), *)
(* each of which alone is not valid UTF-8.                                 *)
(***************************************************************************)
ByteAlphabet == {97, NL, 195, 169}
Contents == StringsUpTo(ByteAlphabet, MaxBytes)

InitFile ==
    /\ f_content \in Contents
    /\ f_take \in Directives
    /\ f_bytemode \in BOOLEAN
    /\ f_totals = None
    /\ f_out = <<>>
    /\ f_pc = "count"
    /\ ParseIdle /\ StartIdle /\ RunIdle

FileCount ==
    /\ f_pc = "count"
    /\ f_totals' = Some(count_line_bytes(Reader(f_content, None))[2])
    /\ f_pc' = "print"
    /\ UNCHANGED <<f_content, f_take, f_bytemode, f_out,
                   parseVars, startVars, runVars>>

FilePrintBytes ==
    /\ f_pc = "print"
    /\ f_bytemode
    /\ f_out' = print_bytes(Reader(f_content, None), f_take, f_totals[1][2])[2]
    /\ f_pc' = "done"
    /\ UNCHANGED <<f_content, f_take, f_bytemode, f_totals,
                   parseVars, startVars, runVars>>

FilePrintLines ==
    /\ f_pc = "print"
    /\ ~f_bytemode
    /\ f_out' = print_lines(Reader(f_content, None), f_take, f_totals[1][1])[2]
    /\ f_pc' = "done"
    /\ UNCHANGED <<f_content, f_take, f_bytemode, f_totals,
                   parseVars, startVars, runVars>>

NextFile == FileCount \/ FilePrintBytes \/ FilePrintLines
SpecFile == InitFile /\ [][NextFile]_vars

(***************************************************************************)
(* Spec: run.  The file system holds one path that cannot be opened and    *)
(* three files; any read of either pass may fail.                          *)
(***************************************************************************)
FileNames == {"none", "empty", "two", "raw"}
Exists(filename) == filename # "none"
FileData(filename) ==
    CASE filename = "empty" -> <<>>
      [] filename = "two" -> <<97, NL, 97, NL>>
      [] filename = "raw" -> <<195, 169, NL, 169>>

\* the count arguments given to -n or -c; -n defaults to "10"
CountArgs == {<<"1">>, <<"3">>, <<"+", "0">>, <<"+", "2">>, <<"0">>, <<"x">>}
DefaultLines == <<"1", "0">>

FileLists == StringsUpTo(FileNames, MaxFiles) \ {<<>>}

\* the native integer of an i64 of at most nine digits
RECURSIVE MagToInt(_)
MagToInt(m) ==
    IF m = <<>> THEN 0 ELSE 10 * MagToInt(SubSeq(m, 1, Len(m) - 1)) + m[Len(m)]
I64ToInt(x) == IF x.neg THEN 0 - MagToInt(x.mag) ELSE MagToInt(x.mag)
Native(take_val) ==
    IF take_val = PlusZero THEN PlusZero ELSE TakeNum(I64ToInt(take_val[2]))

\* standard output: header lines (println!) and data (print!)
HeaderChunk(blank, filename) ==
    [header |-> TRUE, blank |-> blank, name |-> filename, data |-> <<>>]
DataChunk(data) ==
    [header |-> FALSE, blank |-> FALSE, name |-> "", data |-> data]
Message(kind, subject) == [kind |-> kind, subject |-> subject]

Init ==
    /\ \E files \in FileLists, quiet \in BOOLEAN :
          \/ \E l \in CountArgs :
                args = [files |-> files, lines |-> l, bytes |-> None, quiet |-> quiet]
          \/ \E b \in CountArgs :
                args = [files |-> files, lines |-> DefaultLines,
                        bytes |-> Some(b), quiet |-> quiet]
    /\ lines = None
    /\ bytes = None
    /\ file_num = 0
    /\ stdout = <<>>
    /\ stderr = <<>>
    /\ outcome = <<>>
    /\ exit_code = None
    /\ pc = "parse"
    /\ ParseIdle /\ StartIdle /\ FileIdle

\* main's handling of Err(e) from run: eprintln and exit(1)
Exit1(msg) ==
    /\ stderr' = Append(stderr, msg)
    /\ exit_code' = Some(1)
    /\ pc' = "exit"

\* run, lines 48-54: both count arguments are parsed before any file
RunParse ==
    /\ pc = "parse"
    /\ LET l == parse_num(args.lines)
           b == IF args.bytes = None THEN Ok(None)
                ELSE LET r == parse_num(args.bytes[1])
                     IN  IF IsOk(r) THEN Ok(Some(Native(r[2]))) ELSE r
       IN  IF ~IsOk(l)
           THEN /\ Exit1(Message("illegal line count", l[2]))
                /\ UNCHANGED <<lines, bytes>>
           ELSE IF ~IsOk(b)
           THEN /\ Exit1(Message("illegal byte count", b[2]))
                /\ UNCHANGED <<lines, bytes>>
           ELSE /\ lines' = Some(Native(l[2]))
                /\ bytes' = b[2]
                /\ pc' = "files"
                /\ UNCHANGED <<stderr, exit_code>>
    /\ UNCHANGED <<args, file_num, stdout, outcome, parseVars, startVars, fileVars>>

num_files == Len(args.files)
filename == args.files[file_num + 1]

\* the header println! of line 62, or nothing
Header ==
    IF ~args.quiet /\ num_files > 1
    THEN <<HeaderChunk(file_num > 0, filename)>>
    ELSE <<>>

Printed(data) == IF data = <<>> THEN <<>> ELSE <<DataChunk(data)>>

\* the failure schedules of a pass over a file: each of its read calls
\* (count_line_bytes opening the path again and failing returns the same
\* Err as its read 0 failing)
FailSchedules(data) == {Some(n) : n \in 0..Len(data)}

\* the streaming pass of lines 67-71 on a reader
Stream(file, totals) ==
    IF bytes # None
    THEN print_bytes(file, bytes[1], totals[2])
    ELSE print_lines(file, lines[1], totals[1])

\* one iteration of the loop: File::open fails
RunOpenError ==
    /\ pc = "files"
    /\ file_num < num_files
    /\ ~Exists(filename)
    /\ stderr' = Append(stderr, Message("open", filename))
    /\ outcome' = Append(outcome, "open_error")
    /\ file_num' = file_num + 1
    /\ UNCHANGED <<args, lines, bytes, stdout, exit_code, pc,
                   parseVars, startVars, fileVars>>

\* one iteration of the loop: the file opens and both passes succeed
RunFile ==
    /\ pc = "files"
    /\ file_num < num_files
    /\ Exists(filename)
    /\ LET totals == count_line_bytes(Reader(FileData(filename), None))[2]
           res == Stream(Reader(FileData(filename), None), totals)
       IN  stdout' = stdout \o Header \o Printed(res[2])
    /\ outcome' = Append(outcome, "ok")
    /\ file_num' = file_num + 1
    /\ UNCHANGED <<args, lines, bytes, stderr, exit_code, pc,
                   parseVars, startVars, fileVars>>

\* one iteration of the loop: count_line_bytes returns Err, which `?`
\* returns from run
RunCountError ==
    /\ pc = "files"
    /\ file_num < num_files
    /\ Exists(filename)
    /\ \E fail \in FailSchedules(FileData(filename)) :
          ~IsOk(count_line_bytes(Reader(FileData(filename), fail)))
    /\ stdout' = stdout \o Header
    /\ outcome' = Append(outcome, "count_error")
    /\ Exit1(Message("io", filename))
    /\ UNCHANGED <<args, lines, bytes, file_num, parseVars, startVars, fileVars>>

\* one iteration of the loop: print_bytes or print_lines returns Err, which
\* `?` returns from run
RunStreamError ==
    /\ pc = "files"
    /\ file_num < num_files
    /\ Exists(filename)
    /\ \E fail \in FailSchedules(FileData(filename)) :
          LET totals == count_line_bytes(Reader(FileData(filename), None))[2]
              res == Stream(Reader(FileData(filename), fail), totals)
          IN  /\ ~IsOk(res[1])
              /\ stdout' = stdout \o Header \o Printed(res[2])
    /\ outcome' = Append(outcome, "stream_error")
    /\ Exit1(Message("io", filename))
    /\ UNCHANGED <<args, lines, bytes, file_num, parseVars, startVars, fileVars>>

\* the loop is over: run returns Ok(()) and main returns
RunReturn ==
    /\ pc = "files"
    /\ file_num = num_files
    /\ exit_code' = Some(0)
    /\ pc' = "exit"
    /\ UNCHANGED <<args, lines, bytes, file_num, stdout, stderr, outcome,
                   parseVars, startVars, fileVars>>

Next ==
    \/ RunParse
    \/ RunOpenError
    \/ RunFile
    \/ RunCountError
    \/ RunStreamError
    \/ RunReturn
Spec == Init /\ [][Next]_vars

(***************************************************************************)
(* Properties of get_start_index (SpecStart).                              *)
(***************************************************************************)
StartDone == s_pc = "done"
IsTakeNum(tv) == tv[1] = "TakeNum"

\* C1 as stated: for every k > 0 and total >= 0, TakeNum(-k) gives Some(0)
\* whenever k >= total and Some(total - k) whenever 0 < k < total.
C1_AsStated ==
    (StartDone /\ IsTakeNum(s_take) /\ s_take[2] < 0) =>
        LET k == 0 - s_take[2]
        IN  /\ k >= s_total => s_res = Some(0)
            /\ k < s_total => s_res = Some(s_total - k)

\* C1 amended: for every k > 0, TakeNum(-k) gives None when total = 0,
\* Some(0) when k >= total > 0, and Some(total - k) when 0 < k < total.
C1_Amended ==
    (StartDone /\ IsTakeNum(s_take) /\ s_take[2] < 0) =>
        LET k == 0 - s_take[2]
        IN  /\ s_total = 0 => s_res = None
            /\ (s_total > 0 /\ k >= s_total) => s_res = Some(0)
            /\ k < s_total => s_res = Some(s_total - k)

\* the clamp has acted: more trailing units requested than a non-empty
\* file has
C1_Witness ==
    /\ StartDone /\ IsTakeNum(s_take) /\ s_take[2] < 0
    /\ s_total > 0 /\ 0 - s_take[2] > s_total
    /\ s_res = Some(0)

\* C2: for every k >= 1 and total >= 0, TakeNum(+k) gives None whenever
\* k > total and Some(k - 1) whenever 1 <= k <= total (k = total included).
C2_PositiveStart ==
    (StartDone /\ IsTakeNum(s_take) /\ s_take[2] >= 1) =>
        LET k == s_take[2]
        IN  /\ k > s_total => s_res = None
            /\ k <= s_total => s_res = Some(k - 1)

\* +k with k = total starts at the very last unit
C2_Witness ==
    /\ StartDone /\ IsTakeNum(s_take) /\ s_take[2] >= 1
    /\ s_take[2] = s_total
    /\ s_res = Some(s_total - 1)

\* C3: TakeNum(0) gives None for every total; PlusZero gives Some(0) when
\* total > 0 and None when total = 0.
C3_ZeroDirectives ==
    StartDone =>
        /\ s_take = TakeNum(0) => s_res = None
        /\ s_take = PlusZero => s_res = (IF s_total > 0 THEN Some(0) ELSE None)

\* +0 on a non-empty file starts at the first unit
C3_Witness ==
    StartDone /\ s_take = PlusZero /\ s_total > 0 /\ s_res = Some(0)

\* C10: for every directive and total >= 0, a Some(s) result lies strictly
\* inside the file: 0 <= s < total.
C10_StartInsideFile ==
    (StartDone /\ s_res # None) => (0 <= s_res[1] /\ s_res[1] < s_total)

\* +k with k = total: the offset is the last index still inside the file
C10_Witness ==
    /\ StartDone /\ s_res # None
    /\ IsTakeNum(s_take) /\ s_take[2] > 1
    /\ s_res[1] = s_total - 1

(***************************************************************************)
(* Properties of parse_num (SpecParse).                                    *)
(***************************************************************************)
ParseDone == p_pc = "done"

\* the sign character of an argument string, "" if it has none
SignOf(val) == IF val # <<>> /\ Head(val) \in {"+", "-"} THEN Head(val) ELSE ""
DigitsOf(val) == IF SignOf(val) = "" THEN val ELSE Tail(val)
\* an optional sign followed by one or more decimal digits
WellFormed(val) ==
    /\ DigitsOf(val) # <<>>
    /\ \A i \in 1..Len(DigitsOf(val)) : IsAsciiDigit(DigitsOf(val)[i])
\* the value of a digit string, as a magnitude
ValueOf(ds) ==
    LET nz == {i \in 1..Len(ds) : ds[i] # "0"}
    IN  IF nz = {} THEN <<>>
        ELSE LET first == CHOOSE i \in nz : \A j \in nz : i <= j
             IN  [i \in 1..(Len(ds) - first + 1) |-> ToDigit(ds[first + i - 1])]
\* the signed value fits i64: v <= 2^63 - 1 for '+', v <= 2^63 for '-' and
\* for no sign (the value is then -v)
Fits(val) ==
    LET v == ValueOf(DigitsOf(val))
        limit == IF SignOf(val) = "+" THEN I64MaxMag ELSE I64MinMag
    IN  \/ Len(v) < 19
        \/ /\ Len(v) = 19
           /\ \A i \in 1..19 :
                 (\A j \in 1..(i - 1) : v[j] = limit[j]) => v[i] <= limit[i]

\* C4: a well-formed string whose value v is in range parses to TakeNum(-v)
\* with no sign or '-', to PlusZero with '+' and v = 0, to TakeNum(+v) with
\* '+' and v # 0; '+' never gives TakeNum(0), no sign and '-' never give
\* PlusZero; every other string fails with the string itself.
C4_ParseMapping ==
    ParseDone =>
        LET r == p_res[1]
            v == ValueOf(DigitsOf(p_val))
        IN  /\ (WellFormed(p_val) /\ Fits(p_val)) =>
                  r = IF SignOf(p_val) = "+"
                      THEN (IF v = <<>> THEN Ok(PlusZero)
                            ELSE Ok(TakeNum(I64(FALSE, v))))
                      ELSE Ok(TakeNum(I64(v # <<>>, v)))
            /\ SignOf(p_val) = "+" => r # Ok(TakeNum(I64Zero))
            /\ SignOf(p_val) # "+" => r # Ok(PlusZero)
            /\ ~WellFormed(p_val) => r = Err(p_val)

\* a bare number has been parsed as a count from the end
C4_Witness ==
    /\ ParseDone
    /\ p_val = <<"1", "9">>
    /\ p_res = Some(Ok(TakeNum(I64(TRUE, <<1, 9>>))))

\* C5: a well-formed string fails, with the string itself, exactly when its
\* signed value does not fit i64, for no sign, '+' and '-' alike.
C5_ParseRange ==
    (ParseDone /\ WellFormed(p_val)) =>
        /\ IsOk(p_res[1]) <=> Fits(p_val)
        /\ ~Fits(p_val) => p_res[1] = Err(p_val)

\* +2^63 has been rejected
C5_Witness ==
    /\ ParseDone
    /\ p_val = <<"+">> \o FromDigits(I64MinMag)
    /\ p_res = Some(Err(p_val))

(***************************************************************************)
(* Properties of the per-file pipeline (SpecFile).                         *)
(***************************************************************************)
FileDone == f_pc = "done"

\* the number of lines of a file: its terminators, and a final
\* unterminated line
NlPositions(data) == {i \in 1..Len(data) : data[i] = NL}
LineCount(data) ==
    Cardinality(NlPositions(data))
        + (IF data # <<>> /\ data[Len(data)] # NL THEN 1 ELSE 0)
\* the last m lines of a file, 0 <= m <= LineCount(data)
LastLines(data, m) ==
    LET skip == LineCount(data) - m
    IN  IF skip = 0 THEN data
        ELSE LET cut == CHOOSE i \in NlPositions(data) :
                           Cardinality({j \in NlPositions(data) : j <= i}) = skip
             IN  SubSeq(data, cut + 1, Len(data))

\* C6: line mode with a bare count k >= 1 on a file of L lines writes
\* exactly the last min(k, L) lines, byte for byte.
C6_LastLines ==
    (FileDone /\ ~f_bytemode /\ IsTakeNum(f_take) /\ f_take[2] < 0) =>
        LET k == 0 - f_take[2]
            L == LineCount(f_content)
        IN  f_out = LastLines(f_content, IF k < L THEN k ELSE L)

\* C7: byte mode with start offset Some(s) writes exactly the file's bytes
\* from offset s to end-of-file.
C7_BytesVerbatim ==
    (FileDone /\ f_bytemode) =>
        LET start == get_start_index(f_take, Len(f_content))
        IN  start # None =>
               f_out = SubSeq(f_content, start[1] + 1, Len(f_content))

(***************************************************************************)
(* Properties of the driver (Spec).                                        *)
(***************************************************************************)
\* C8: when a file fails to open or hits an I/O error in either pass, the
\* run still goes through every file argument and exits with status 0.
C8_ErrorsNotFatal ==
    (pc = "exit" /\ \E i \in 1..Len(outcome) : outcome[i] # "ok") =>
        /\ Len(outcome) = num_files
        /\ exit_code = Some(0)

\* C9: with several files and without quiet, each opened file has its
\* header, in argument order; the first header written has no blank line
\* before it and every later one has; with one file or quiet there is none.
HeaderIndices == {i \in 1..Len(stdout) : stdout[i].header}
C9_Headers ==
    /\ \A i \in HeaderIndices :
          stdout[i].blank = (\E j \in HeaderIndices : j < i)
    /\ (num_files = 1 \/ args.quiet) => HeaderIndices = {}
    /\ (num_files > 1 /\ ~args.quiet /\ pc = "files") =>
          Cardinality(HeaderIndices)
              = Cardinality({i \in 1..Len(outcome) : outcome[i] = "ok"})

====
